---- MODULE Spec2Model ----
(***************************************************************************)
(* Model of connectors/clinicaltrials/connector.py: the field extractor    *)
(* (g, extract_record), the parameter builder (build_params), the page     *)
(* fetcher (fetch_page) and the pagination driver (run).                   *)
(*                                                                         *)
(* JSON values are tagged records: t is the Python type, v the payload.    *)
(* A dict's payload is a function from its keys to values, a list's a      *)
(* sequence of values.  Python's None is the value None below.             *)
(*                                                                         *)
(* The wall-clock field ingestion_ts (line 82) is not part of the modelled *)
(* record: no operation of the program reads it back.                      *)
(***************************************************************************)
EXTENDS Integers, Sequences, FiniteSets, TLC

VARIABLES
    max_pages,    \* run(): the max_pages argument
    search,       \* run(): the search argument
    page_token,   \* run(): local page_token (line 126)
    pages,        \* run(): local pages (line 127)
    emitted,      \* run(): local emitted (line 128)
    data,         \* run(): local data, the body of the page being processed
    idx,          \* run(): how many elements of studies the for loop has consumed
    st,           \* run(): loop variable st / the argument of extract_record
    rec,          \* outcome of the last extract_record call
    sink,         \* sys.stdout: the lines written, one record each
    requests,     \* the params of every session.get issued, in order
    responses,    \* the body of every page returned by fetch_page, in order
    pc,           \* position in run(): "while", "for", "done", "raised";
                  \* "extract"/"extracted" when extract_record is exercised alone
    stop,         \* which break left the loop: "PageCapReached" (line 132),
                  \* "NoNextCursor" (line 148), "" while running
    exc,          \* the exception that ended the run, "" if none
    result        \* the value run() returned (line 153), -1 before it returns

vars == <<max_pages, search, page_token, pages, emitted, data, idx, st, rec,
          sink, requests, responses, pc, stop, exc, result>>

-----------------------------------------------------------------------------
(* JSON / Python values *)

None == [t |-> "none"]
Str(s) == [t |-> "str", v |-> s]
Num(i) == [t |-> "int", v |-> i]
List(q) == [t |-> "list", v |-> q]
Dict(f) == [t |-> "dict", v |-> f]

\* Marks a key that an input document does not have (input construction only).
Missing == [t |-> "missing"]

\* The dict holding the pairs <<key, value>> of `pairs` whose value is not Missing.
Mk(pairs) ==
    LET present == {p \in pairs : p[2] # Missing}
    IN  Dict([k \in {p[1] : p \in present} |-> (CHOOSE p \in present : p[1] = k)[2]])

SeqsUpTo(S, n) == UNION {[1..k -> S] : k \in 0..n}

\* Python truth value of a JSON value (used by `or`, `if x:`, `if not x:`).
Truthy(x) ==
    CASE x.t = "none" -> FALSE
      [] x.t = "str"  -> x.v # ""
      [] x.t = "int"  -> x.v # 0
      [] x.t = "list" -> Len(x.v) > 0
      [] x.t = "dict" -> DOMAIN x.v # {}

Or_notNone(a, b) == IF a # None THEN a ELSE b

\* Python's `a or b`.
Or(a, b) == IF Truthy(a) THEN a ELSE b

\* dict.get(key): the value, or None when the key is not there.
DictGet(d, key) == IF key \in DOMAIN d.v THEN d.v[key] ELSE None

\* g(d, path) with the default None; path is path.split("."), a sequence of keys.
RECURSIVE g(_, _)
g(cur, path) ==
    IF path = <<>> THEN cur
    ELSE IF cur.t # "dict" \/ Head(path) \notin DOMAIN cur.v THEN None
    ELSE g(cur.v[Head(path)], Tail(path))

\* ", ".join(q) for a sequence q of str values.
RECURSIVE JoinStrs(_)
JoinStrs(q) ==
    IF Len(q) = 0 THEN ""
    ELSE IF Len(q) = 1 THEN q[1].v
    ELSE q[1].v \o ", " \o JoinStrs(Tail(q))

LocKeep_notNone(country) == country # None

\* `if country:` (line 60)
LocKeep(country) == Truthy(country)

\* The for loop of lines 58-61 over a list of dicts.
RECURSIVE LocLoop(_)
LocLoop(q) ==
    IF q = <<>> THEN <<>>
    ELSE LET country == DictGet(Head(q), "country")
         IN  (IF LocKeep(country) THEN <<Mk({<<"country", country>>})>> ELSE <<>>)
             \o LocLoop(Tail(q))

Raised(kind) == [ok |-> FALSE, exc |-> kind]
Returned(r) == [ok |-> TRUE, rec |-> r]

\* extract_record(study): Returned(record), or Raised(exception) when
\* loc.get (line 59) or ", ".join (line 72) raises.
extract_record(study) ==
    LET nct_id == Or(g(study, <<"protocolSection", "identificationModule", "nctId">>),
                     g(study, <<"identificationModule", "nctId">>))
        official_title ==
            Or(g(study, <<"protocolSection", "identificationModule", "officialTitle">>),
               g(study, <<"protocolSection", "identificationModule", "briefTitle">>))
        overall_status == g(study, <<"protocolSection", "statusModule", "overallStatus">>)
        phase == Or(g(study, <<"protocolSection", "designModule", "phases">>),
                    g(study, <<"protocolSection", "designModule", "phase">>))
        conditions == Or(g(study, <<"protocolSection", "conditionsModule", "conditions">>),
                         List(<<>>))
        locations_block ==
            Or(g(study, <<"protocolSection", "contactsLocationsModule", "locations">>),
               List(<<>>))
        last_changed ==
            Or(Or(g(study, <<"protocolSection", "statusModule", "lastUpdatePostDate">>),
                  g(study, <<"protocolSection", "statusModule", "lastChangedDate">>)),
               g(study, <<"protocolSection", "statusModule", "lastKnownStatusDate">>))
        locIsList == locations_block.t = "list"
        locRaises == locIsList /\ \E i \in 1..Len(locations_block.v) :
                                      locations_block.v[i].t # "dict"
        phaseIsList == phase.t = "list"
        phaseRaises == phaseIsList /\ \E i \in 1..Len(phase.v) : phase.v[i].t # "str"
    IN  IF locRaises THEN Raised("AttributeError")
        ELSE IF phaseRaises THEN Raised("TypeError")
        ELSE Returned([nct_id |-> nct_id,
                       official_title |-> official_title,
                       overall_status |-> overall_status,
                       phase |-> IF phaseIsList THEN Str(JoinStrs(phase.v)) ELSE phase,
                       conditions |-> conditions,
                       locations |-> List(IF locIsList THEN LocLoop(locations_block.v)
                                          ELSE <<>>),
                       last_changed_date |-> last_changed])

-----------------------------------------------------------------------------
(* Parameter builder *)

page_size == 100

build_params_noToken(search_, page_size_, page_token_) ==
    Mk({<<"pageSize", Num(page_size_)>>, <<"countTotal", Str("true")>>,
        <<"query.cond", IF search_ # "" THEN Str(search_) ELSE Missing>>})

\* build_params(search, page_size, page_token, start_date); start_date has no effect.
build_params(search_, page_size_, page_token_) ==
    Mk({<<"pageSize", Num(page_size_)>>, <<"countTotal", Str("true")>>,
        <<"query.cond", IF search_ # "" THEN Str(search_) ELSE Missing>>,
        <<"pageToken", IF Truthy(page_token_) THEN page_token_ ELSE Missing>>})

-----------------------------------------------------------------------------
(* Inputs: raw study documents *)

PS(mods) == Mk({<<"protocolSection", Mk(mods)>>})

Vals(tag) == {Missing, None, Str(""), Num(0), List(<<>>), Str(tag)}

MaxLocs == 2

LocElems ==
    {Mk({}), Mk({<<"country", Str("US")>>}), Mk({<<"country", Str("CA")>>}),
     Mk({<<"country", Str("")>>}), Mk({<<"country", None>>}), Str("US")}

NctStudies ==
    {Mk({<<"protocolSection", Mk({<<"identificationModule", Mk({<<"nctId", a>>})>>})>>,
         <<"identificationModule", Mk({<<"nctId", b>>})>>})
       : a \in Vals("NCT1"), b \in Vals("NCT2")}

TitleStudies ==
    {PS({<<"identificationModule", Mk({<<"officialTitle", a>>, <<"briefTitle", b>>})>>})
       : a \in Vals("Official"), b \in Vals("Brief")}

StatusStudies ==
    {PS({<<"statusModule", Mk({<<"overallStatus", a>>})>>}) : a \in Vals("RECRUITING")}

DateStudies ==
    {PS({<<"statusModule", Mk({<<"lastUpdatePostDate", a>>, <<"lastChangedDate", b>>,
                               <<"lastKnownStatusDate", c>>})>>})
       : a \in {Missing, Str(""), Num(0), Str("2024-01-01")},
         b \in {Missing, Str(""), Num(0), Str("2024-02-02")},
         c \in {Missing, Str(""), Num(0), Str("2024-03-03")}}

PhaseStudies ==
    {PS({<<"designModule", Mk({<<"phases", a>>, <<"phase", b>>})>>})
       : a \in {Missing, None, List(<<>>), List(<<Str("PHASE1")>>),
                List(<<Str("PHASE1"), Str("PHASE2")>>), List(<<Num(1)>>),
                List(<<Str("PHASE1"), None>>), Str("PHASE1"), Num(0)},
         b \in {Missing, Str(""), Str("PHASE3"), List(<<>>), List(<<Str("PHASE4")>>),
                List(<<Num(4)>>)}}

ConditionStudies ==
    {PS({<<"conditionsModule", Mk({<<"conditions", a>>})>>})
       : a \in {Missing, None, List(<<>>), List(<<Str("Dementia")>>), Str("Dementia"),
                Num(0)}}

LocationStudies ==
    {PS({<<"contactsLocationsModule", Mk({<<"locations", a>>})>>})
       : a \in {Missing, None, Str("US"), Mk({<<"country", Str("US")>>})}
               \cup {List(q) : q \in SeqsUpTo(LocElems, MaxLocs)}}

\* A non-mapping where the paths expect a mapping.
ShapeStudies ==
    {None, Str("NCT1"), List(<<>>)}
    \cup {Mk({<<"protocolSection", m>>,
              <<"identificationModule", Mk({<<"nctId", Str("NCT2")>>})>>})
            : m \in {None, Str("x"), Num(1), List(<<>>)}}
    \cup {Mk({<<"protocolSection",
                Mk({<<"identificationModule", m>>, <<"statusModule", m>>,
                    <<"designModule", m>>, <<"conditionsModule", m>>,
                    <<"contactsLocationsModule", m>>})>>,
              <<"identificationModule", n>>})
            : m \in {None, Str("x"), Num(1), List(<<>>)},
              n \in {Missing, Str("NCT2"), Mk({<<"nctId", Str("NCT2")>>})}}

ExtractStudies ==
    NctStudies \cup TitleStudies \cup StatusStudies \cup DateStudies \cup PhaseStudies
    \cup ConditionStudies \cup LocationStudies \cup ShapeStudies

-----------------------------------------------------------------------------
(* Inputs: what the upstream can answer to one page request *)

\* primary key at the first candidate path
K1 ==
    Mk({<<"protocolSection",
          Mk({<<"identificationModule",
                Mk({<<"nctId", Str("NCT1")>>, <<"officialTitle", Str("T")>>})>>,
              <<"statusModule", Mk({<<"overallStatus", Str("RECRUITING")>>})>>,
              <<"conditionsModule",
                Mk({<<"conditions", List(<<Str("Dementia")>>)>>})>>})>>})

\* primary key at the second candidate path only
K2 == Mk({<<"identificationModule", Mk({<<"nctId", Str("NCT2")>>})>>})

\* no primary key at any candidate path
NoKey ==
    PS({<<"identificationModule", Mk({<<"briefTitle", Str("untitled")>>})>>})

\* a primary key that is the empty string
EmptyKey == Mk({<<"identificationModule", Mk({<<"nctId", Str("")>>})>>})

\* a primary key, and a locations list holding a bare string
BadLoc ==
    PS({<<"identificationModule", Mk({<<"nctId", Str("NCT3")>>})>>,
        <<"contactsLocationsModule", Mk({<<"locations", List(<<Str("US")>>)>>})>>})

StudyLists ==
    {Missing, List(<<>>), List(<<K1>>), List(<<NoKey, K1>>), List(<<K2, EmptyKey>>),
     List(<<K1, BadLoc, K2>>)}

Tokens == {Missing, None, Str(""), Str("tok1"), Str("tok2")}

PageBodies ==
    {Mk({<<"studies", s>>, <<"nextPageToken", tk>>}) : s \in StudyLists, tk \in Tokens}

\* max_pages ranges over -MaxNegPages .. MaxMaxPages
MaxNegPages == 1
MaxMaxPages == 3

-----------------------------------------------------------------------------
(* The pagination driver, run() *)

NoCall == Raised("")

Init ==
    /\ max_pages \in (0 - MaxNegPages)..MaxMaxPages
    /\ search \in {"", "Alzheimer"}
    /\ page_token = None
    /\ pages = 0
    /\ emitted = 0
    /\ data = None
    /\ idx = 0
    /\ st = None
    /\ rec = NoCall
    /\ sink = <<>>
    /\ requests = <<>>
    /\ responses = <<>>
    /\ pc = "while"
    /\ stop = ""
    /\ exc = ""
    /\ result = -1

CapReached_offByOne(pages_, max_pages_) == pages_ > max_pages_

\* `if pages >= max_pages` (line 131)
CapReached(pages_, max_pages_) == pages_ >= max_pages_

EmitGuard_always(r) == TRUE

\* `if rec.get("nct_id")` (line 141)
EmitGuard(r) == Truthy(r.nct_id)

Emit_dedup(out, r) ==
    IF \E i \in 1..Len(out) : out[i].nct_id = r.nct_id THEN out ELSE Append(out, r)

\* sys.stdout.write(json.dumps(rec) + "\n") (line 142): one more line on the stream
Emit(out, r) == Append(out, r)

ContinueGuard_always(tok) == TRUE

\* the negation of `if not page_token` (line 147)
ContinueGuard(tok) == Truthy(tok)

\* `data.get("studies") or []` (line 137)
Studies(body) == Or(DictGet(body, "studies"), List(<<>>)).v

\* Lines 131-132 and 153: the cap is reached, the loop breaks, run returns.
CapBreak ==
    /\ pc = "while"
    /\ CapReached(pages, max_pages)
    /\ pc' = "done"
    /\ stop' = "PageCapReached"
    /\ result' = emitted
    /\ UNCHANGED <<max_pages, search, page_token, pages, emitted, data, idx, st, rec,
                   sink, requests, responses, exc>>

\* Lines 134-137: the request is built and sent, and the page body comes back.
FetchOk ==
    /\ pc = "while"
    /\ ~CapReached(pages, max_pages)
    /\ \E body \in PageBodies :
         /\ data' = body
         /\ responses' = Append(responses, body)
    /\ requests' = Append(requests, build_params(search, page_size, page_token))
    /\ idx' = 0
    /\ pc' = "for"
    /\ UNCHANGED <<max_pages, search, page_token, pages, emitted, st, rec, sink,
                   stop, exc, result>>

FetchRaise_retry ==
    /\ pc = "while"
    /\ ~CapReached(pages, max_pages)
    /\ requests' = Append(requests, build_params(search, page_size, page_token))
    /\ UNCHANGED <<max_pages, search, page_token, pages, emitted, data, idx, st, rec,
                   sink, responses, pc, stop, exc, result>>

\* Lines 134-135 when session.get, raise_for_status or resp.json raises:
\* nothing in run() catches it.
FetchRaise ==
    /\ pc = "while"
    /\ ~CapReached(pages, max_pages)
    /\ requests' = Append(requests, build_params(search, page_size, page_token))
    /\ pc' = "raised"
    /\ exc' = "HTTPError"
    /\ UNCHANGED <<max_pages, search, page_token, pages, emitted, data, idx, st, rec,
                   sink, responses, stop, result>>

\* Lines 138-143: one iteration of the for loop.
ForStudy ==
    /\ pc = "for"
    /\ idx < Len(Studies(data))
    /\ LET s == Studies(data)[idx + 1]
           r == extract_record(s)
       IN  /\ st' = s
           /\ rec' = r
           /\ IF r.ok
              THEN /\ idx' = idx + 1
                   /\ IF EmitGuard(r.rec)
                      THEN sink' = Emit(sink, r.rec) /\ emitted' = emitted + 1
                      ELSE UNCHANGED <<sink, emitted>>
                   /\ UNCHANGED <<pc, exc>>
              ELSE /\ pc' = "raised"
                   /\ exc' = r.exc
                   /\ UNCHANGED <<idx, sink, emitted>>
    /\ UNCHANGED <<max_pages, search, page_token, pages, data, requests, responses,
                   stop, result>>

\* Lines 145-153: the page is done; the loop breaks on a falsy token or goes on
\* (time.sleep changes nothing of the state).
ForEnd ==
    /\ pc = "for"
    /\ idx = Len(Studies(data))
    /\ pages' = pages + 1
    /\ page_token' = DictGet(data, "nextPageToken")
    /\ IF ContinueGuard(page_token')
       THEN /\ pc' = "while"
            /\ UNCHANGED <<stop, result>>
       ELSE /\ pc' = "done"
            /\ stop' = "NoNextCursor"
            /\ result' = emitted
    /\ UNCHANGED <<max_pages, search, emitted, data, idx, st, rec, sink, requests,
                   responses, exc>>

Next == CapBreak \/ FetchOk \/ FetchRaise \/ ForStudy \/ ForEnd

Spec == Init /\ [][Next]_vars

\* Every step of run() is taken once it can be: the interpreter keeps running, and
\* each fetch returns or raises (the timeout of line 119).
FairSpec == Spec /\ WF_vars(Next)

-----------------------------------------------------------------------------
(* extract_record applied to one document *)

InitExtract ==
    /\ st \in ExtractStudies
    /\ rec = NoCall
    /\ pc = "extract"
    /\ max_pages = 0
    /\ search = ""
    /\ page_token = None
    /\ pages = 0
    /\ emitted = 0
    /\ data = None
    /\ idx = 0
    /\ sink = <<>>
    /\ requests = <<>>
    /\ responses = <<>>
    /\ stop = ""
    /\ exc = ""
    /\ result = -1

CallExtract ==
    /\ pc = "extract"
    /\ rec' = extract_record(st)
    /\ pc' = "extracted"
    /\ UNCHANGED <<max_pages, search, page_token, pages, emitted, data, idx, st, sink,
                   requests, responses, stop, exc, result>>

NextExtract == CallExtract

SpecExtract == InitExtract /\ [][NextExtract]_vars

-----------------------------------------------------------------------------
(* Vocabulary of the properties, read off the inputs independently of g and run *)

\* The value under key k of d; None when d is no mapping or has no such key.
At1(d, k) == IF d.t = "dict" /\ k \in DOMAIN d.v THEN d.v[k] ELSE None

ValueAt(d, p) ==
    IF Len(p) = 2 THEN At1(At1(d, p[1]), p[2])
    ELSE At1(At1(At1(d, p[1]), p[2]), p[3])

NonEmpty(x) == x # None /\ x # Str("") /\ x # Num(0) /\ x # List(<<>>) /\ x # Mk({})

FirstPresent(c) ==
    IF \E i \in 1..Len(c) : c[i] # None
    THEN c[CHOOSE i \in 1..Len(c) : c[i] # None /\ \A j \in 1..(i - 1) : c[j] = None]
    ELSE None

FirstNonEmptyElseLast(c) ==
    IF \E i \in 1..Len(c) : NonEmpty(c[i])
    THEN c[CHOOSE i \in 1..Len(c) :
               NonEmpty(c[i]) /\ \A j \in 1..(i - 1) : ~NonEmpty(c[j])]
    ELSE c[Len(c)]

Joined(x) == IF x.t = "list" THEN Str(JoinStrs(x.v)) ELSE x

NctChain(s) ==
    <<ValueAt(s, <<"protocolSection", "identificationModule", "nctId">>),
      ValueAt(s, <<"identificationModule", "nctId">>)>>

TitleChain(s) ==
    <<ValueAt(s, <<"protocolSection", "identificationModule", "officialTitle">>),
      ValueAt(s, <<"protocolSection", "identificationModule", "briefTitle">>)>>

PhaseChain(s) ==
    <<ValueAt(s, <<"protocolSection", "designModule", "phases">>),
      ValueAt(s, <<"protocolSection", "designModule", "phase">>)>>

DateChain(s) ==
    <<ValueAt(s, <<"protocolSection", "statusModule", "lastUpdatePostDate">>),
      ValueAt(s, <<"protocolSection", "statusModule", "lastChangedDate">>),
      ValueAt(s, <<"protocolSection", "statusModule", "lastKnownStatusDate">>)>>

\* The elements of protocolSection.contactsLocationsModule.locations.
LocationElems(s) ==
    LET b == ValueAt(s, <<"protocolSection", "contactsLocationsModule", "locations">>)
    IN  IF b.t = "list" THEN b.v ELSE <<>>

\* One {country: value} per element of q with a country: any non-absent one, or
\* (nonEmptyOnly) any non-empty one.
RECURSIVE CountryEntries(_, _)
CountryEntries(q, nonEmptyOnly) ==
    IF q = <<>> THEN <<>>
    ELSE LET c == At1(Head(q), "country")
             keep == IF nonEmptyOnly THEN NonEmpty(c) ELSE c # None
         IN  (IF keep THEN <<Mk({<<"country", c>>})>> ELSE <<>>)
             \o CountryEntries(Tail(q), nonEmptyOnly)

Extracted == pc = "extracted"

IsPrefix(a, b) == Len(a) <= Len(b) /\ SubSeq(b, 1, Len(a)) = a

Max0(n) == IF n < 0 THEN 0 ELSE n

\* The study list and the next-cursor field of a page body.
RespStudies(body) ==
    LET s == At1(body, "studies") IN IF s.t = "list" THEN s.v ELSE <<>>

NextCursor(body) == At1(body, "nextPageToken")

RECURSIVE Flatten(_)
Flatten(bodies) ==
    IF bodies = <<>> THEN <<>> ELSE RespStudies(Head(bodies)) \o Flatten(Tail(bodies))

\* The last fetched page is still being processed (or its processing raised).
InProgress == pc = "for" \/ (pc = "raised" /\ exc # "HTTPError")

\* Page k has been fully processed.
PageDone(k) == k < Len(responses) \/ (k = Len(responses) /\ ~InProgress)

\* The studies the driver has gone through so far, in order.
Consumed ==
    IF InProgress
    THEN Flatten(SubSeq(responses, 1, Len(responses) - 1))
         \o SubSeq(RespStudies(responses[Len(responses)]), 1, idx)
    ELSE Flatten(responses)

\* The records of the studies of q that have a primary key: any non-absent one,
\* or (nonEmptyOnly) any non-empty one.
RECURSIVE RecordsOf(_, _)
RecordsOf(q, nonEmptyOnly) ==
    IF q = <<>> THEN <<>>
    ELSE LET r == extract_record(Head(q))
             keep == r.ok /\ IF nonEmptyOnly THEN NonEmpty(r.rec.nct_id)
                                             ELSE r.rec.nct_id # None
         IN  (IF keep THEN <<r.rec>> ELSE <<>>) \o RecordsOf(Tail(q), nonEmptyOnly)

FetchFailed == pc = "raised" /\ exc = "HTTPError"

-----------------------------------------------------------------------------
(* C1 *)

\* C1: every record written to the sink has a non-absent nct_id; a study whose
\* extracted nct_id is absent is never written.
C1_PrimaryKeyGuard == \A i \in 1..Len(sink) : sink[i].nct_id # None

\* A study without a primary key has just gone through the loop, after records
\* were written.
C1_Witness ==
    /\ pc = "for" /\ idx > 0
    /\ rec.ok /\ rec.rec.nct_id = None
    /\ Len(sink) > 0

(* C2 *)

\* C2 as stated: the number of fetches never exceeds maxPages; maxPages = 0
\* gives zero fetches and a report of zero; maxPages = 1 and a page 1 with a
\* next-cursor gives exactly one fetch and a stop with PageCapReached.
C2_AsStated ==
    /\ Len(requests) <= max_pages
    /\ max_pages = 0 => Len(requests) = 0 /\ (pc = "done" => result = 0)
    /\ (max_pages = 1 /\ Len(responses) >= 1 /\ NextCursor(responses[1]) # None)
         => Len(requests) = 1 /\ (pc = "done" => stop = "PageCapReached")

\* C2 (amended): the number of fetches never exceeds max(maxPages, 0), and each
\* fetch is issued with pages < maxPages; maxPages <= 0 gives zero fetches, an
\* empty sink and a report of zero; maxPages = 1 and a page 1 with a non-empty
\* next-cursor gives exactly one fetch, and a run that stops stops with
\* PageCapReached.
C2_PageCap ==
    /\ Len(requests) <= Max0(max_pages)
    /\ pages <= Max0(max_pages)
    /\ Len(requests) <= pages + 1
    /\ max_pages <= 0 =>
         /\ Len(requests) = 0 /\ sink = <<>>
         /\ pc = "done" => result = 0 /\ stop = "PageCapReached"
    /\ (max_pages = 1 /\ Len(responses) >= 1 /\ NonEmpty(NextCursor(responses[1])))
         => Len(requests) = 1 /\ (pc = "done" => stop = "PageCapReached")

\* maxPages = 1, page 1 came with a cursor, and the run stopped at the cap.
C2_Witness ==
    /\ max_pages = 1 /\ pc = "done" /\ stop = "PageCapReached"
    /\ Len(requests) = 1 /\ Len(responses) = 1
    /\ NonEmpty(NextCursor(responses[1]))

(* C3 *)

\* C3 as stated: once page k without a next-cursor field is processed the driver
\* is stopped with NoNextCursor, pages 1..k processed and nothing more fetched,
\* whatever maxPages; once a page with a next-cursor field is processed the
\* cursor is set to it and the driver has not stopped for lack of a cursor.
C3_AsStated ==
    \A k \in 1..Len(responses) :
      PageDone(k) =>
        IF NextCursor(responses[k]) = None
        THEN /\ pc = "done" /\ stop = "NoNextCursor"
             /\ pages = k /\ Len(responses) = k /\ Len(requests) = k
        ELSE k = Len(responses) =>
               /\ page_token = NextCursor(responses[k])
               /\ stop # "NoNextCursor"

\* C3 (amended): the same with "no next-cursor field" read as absent or empty,
\* and "present" as present and non-empty.
C3_CursorTermination ==
    \A k \in 1..Len(responses) :
      PageDone(k) =>
        IF ~NonEmpty(NextCursor(responses[k]))
        THEN /\ pc = "done" /\ stop = "NoNextCursor"
             /\ pages = k /\ Len(responses) = k /\ Len(requests) = k
        ELSE k = Len(responses) =>
               /\ page_token = NextCursor(responses[k])
               /\ stop # "NoNextCursor"
               /\ pages = k

\* The page at the cap had no cursor: the stop is NoNextCursor, after two
\* pages of which the first had one.
C3_Witness ==
    /\ pc = "done" /\ stop = "NoNextCursor"
    /\ pages = 2 /\ max_pages = 2
    /\ NextCursor(responses[2]) = None

(* C4 *)

\* C4 as stated: the sink is the sequence of the studies gone through so far
\* that have a present primary key, in page order then in-page order.
C4_AsStated == sink = RecordsOf(Consumed, FALSE)

\* C4 (amended): the sink is the sequence of the studies gone through so far
\* that have a non-empty primary key, in page order then in-page order, repeats
\* included.
C4_EmissionOrder == sink = RecordsOf(Consumed, TRUE) /\ emitted = Len(sink)

\* Two pages in, the same record stands twice in the sink and a study was dropped.
C4_Witness ==
    /\ Len(responses) >= 2
    /\ Len(sink) >= 2 /\ sink[1] = sink[Len(sink)]
    /\ Len(sink) < Len(Consumed)

(* C5 *)

\* C5: when a fetch has failed the run is aborted, that request is the last one
\* (no retry, no further fetch), nothing is reported, and the sink holds exactly
\* the records of the pages fetched before it.
C5_FetchFailure ==
    Len(requests) > Len(responses) =>
      /\ FetchFailed
      /\ Len(requests) = Len(responses) + 1
      /\ pages = Len(responses)
      /\ sink = RecordsOf(Flatten(responses), TRUE)
      /\ emitted = Len(sink)
      /\ result = -1 /\ stop = ""

\* The third fetch failed after two pages that wrote records.
C5_Witness ==
    /\ FetchFailed
    /\ Len(requests) = 3 /\ Len(responses) = 2
    /\ Len(sink) >= 2

(* C6 *)

\* C6 as stated: each of nct_id, official_title, phase, last_changed_date is
\* the first non-absent candidate (phase joined when a sequence).
C6_AsStated ==
    (Extracted /\ rec.ok) =>
      /\ rec.rec.nct_id = FirstPresent(NctChain(st))
      /\ rec.rec.official_title = FirstPresent(TitleChain(st))
      /\ rec.rec.phase = Joined(FirstPresent(PhaseChain(st)))
      /\ rec.rec.last_changed_date = FirstPresent(DateChain(st))

\* C6 (amended): each of nct_id, official_title, phase, last_changed_date is
\* the first candidate that is non-empty (not absent, "", 0 or an empty
\* sequence), and the last candidate when none is (phase joined when a sequence).
C6_FallbackChain ==
    (Extracted /\ rec.ok) =>
      /\ rec.rec.nct_id = FirstNonEmptyElseLast(NctChain(st))
      /\ rec.rec.official_title = FirstNonEmptyElseLast(TitleChain(st))
      /\ rec.rec.phase = Joined(FirstNonEmptyElseLast(PhaseChain(st)))
      /\ rec.rec.last_changed_date = FirstNonEmptyElseLast(DateChain(st))

\* The first candidate is an empty string and the second a value: the second
\* is returned.
C6_Witness ==
    /\ Extracted /\ rec.ok
    /\ NctChain(st) = <<Str(""), Str("NCT2")>>
    /\ rec.rec.nct_id = Str("NCT2")

(* C7 *)

\* C7: extract raises nothing, and conditions and locations are present in
\* the record it returns.
C7_Total ==
    Extracted => rec.ok /\ rec.rec.conditions # None /\ rec.rec.locations # None

(* C8 *)

\* C8 as stated: locations is one {country: value} per element with a
\* non-absent country, in input order.
C8_AsStated ==
    (Extracted /\ rec.ok) =>
      rec.rec.locations = List(CountryEntries(LocationElems(st), FALSE))

\* C8 (amended): the record returned has as locations one {country: value} per
\* element with a non-empty country, in input order; no record is returned
\* (AttributeError) exactly when the sequence holds a non-mapping element.
C8_Locations ==
    Extracted =>
      /\ rec.ok => rec.rec.locations = List(CountryEntries(LocationElems(st), TRUE))
      /\ (~rec.ok /\ rec.exc = "AttributeError")
           <=> \E i \in 1..Len(LocationElems(st)) : LocationElems(st)[i].t # "dict"

\* Two elements, the first with an empty country, the second with one: only the
\* second is in the output.
C8_Witness ==
    /\ Extracted /\ rec.ok
    /\ Len(LocationElems(st)) = 2
    /\ At1(LocationElems(st)[1], "country") = Str("")
    /\ At1(LocationElems(st)[2], "country") = Str("US")
    /\ rec.rec.locations = List(<<Mk({<<"country", Str("US")>>})>>)

(* C9 *)

\* C9: the first request carries no cursor; request n+1 carries the next-cursor
\* of response n; a request is issued only when every earlier page is processed
\* and its keyed records are in the sink.
C9_CursorHandOver ==
    /\ Len(requests) >= 1 => At1(requests[1], "pageToken") = None
    /\ \A n \in 1..(Len(requests) - 1) :
         /\ NextCursor(responses[n]) # None
         /\ At1(requests[n + 1], "pageToken") = NextCursor(responses[n])
    /\ Len(requests) <= pages + 1
    /\ IsPrefix(RecordsOf(Flatten(SubSeq(responses, 1, Len(requests) - 1)), TRUE),
                sink)

\* Three requests, the second and third carrying the two different cursors
\* the upstream handed out.
C9_Witness ==
    /\ Len(requests) = 3
    /\ At1(requests[2], "pageToken") = Str("tok1")
    /\ At1(requests[3], "pageToken") = Str("tok2")
    /\ Len(sink) >= 1

(* C10 *)

\* C10: the run eventually ends, stopped (PageCapReached, NoNextCursor) or
\* aborted by a fetch failure, and a run that stops reports the number of
\* records in the sink.
C10_Termination ==
    /\ <>(pc = "done" \/ FetchFailed)
    /\ [](pc = "done" => result = Len(sink))

====
